---- MODULE Spec2Model ----
(***************************************************************************)
(* A model of tiny-sftp (src/sftp.py): one run of sftp_transfer, either    *)
(* started by the script's __main__ block or called by an importing        *)
(* module.  The run validates the private key, probes the host, creates    *)
(* the SSH client, connects, opens the SFTP channel and the CSV manifest,  *)
(* fetches every row with up to MAX_RETRIES attempts, logs the final       *)
(* message and closes the client in the finally clause.                    *)
(*                                                                         *)
(* Every call into a collaborator (file system, socket, paramiko) is a     *)
(* nondeterministic choice over the outcomes that call can have: a value,  *)
(* or the class of the exception it raises.                                *)
(***************************************************************************)
EXTENDS Integers, Sequences, FiniteSets, TLC

\* src/sftp.py:10
MAX_RETRIES == 3

\* Bound of the model: the largest number of data rows of a manifest.
MaxRows == 2

None == "None"
Undefined == "undefined"

VARIABLES
    invoked,                  \* "main": run as a script; "import": sftp_transfer called by another module
    preferred_key_algorithm,  \* the module global of line 143: Undefined, None or an algorithm name
    manifest,                 \* the file at file_list_path: [readable, fieldnames, lines]
    pc,                       \* the position of the run
    exc,                      \* the exception that is leaving sftp_transfer, or None
    ssh,                      \* the SSHClient: "none", "created", "connected", "closed"
    sftp,                     \* the SFTP channel: "none", "open", "closed"
    file,                     \* the manifest file object: "none", "open", "closed"
    key_algorithm,            \* private_key.key_algorithm: "none" (no key loaded), "default" or a name
    preflight,                \* what the two checks returned: "unknown", "True", "False", "raised"
    calls,                    \* how often each collaborator has been called
    line_num,                 \* csv_reader: the number of data rows read so far
    row,                      \* the dict of the current row (empty before the first row)
    retry_count,              \* the loop variable of line 103
    attempts,                 \* attempts[i]: the number of sftp.get calls made for row i
    log,                      \* the records handed to logging, in order
    exit_code                 \* "running", then "0" (process ended) or "n/a" (returned to an importer)

vars == <<invoked, preferred_key_algorithm, manifest, pc, exc, ssh, sftp, file,
          key_algorithm, preflight, calls, line_num, row, retry_count, attempts, log, exit_code>>

----------------------------------------------------------------------------
(* Inputs *)

Algorithms == {"rsa-sha2-256"}

\* A header with both required columns, and one that lacks Destination.
Headers == {<<"Source", "Destination">>, <<"Source", "Target">>}

\* A full data row, and one with fewer fields than the header.
Lines == {<<"a", "x">>, <<"b">>}

RECURSIVE SeqsUpTo(_, _)
SeqsUpTo(S, n) ==
    IF n = 0 THEN {<<>>}
    ELSE LET shorter == SeqsUpTo(S, n - 1)
         IN  shorter \cup {Append(s, x) : s \in {t \in shorter : Len(t) = n - 1}, x \in S}

Manifests ==
    [readable : BOOLEAN, fieldnames : Headers, lines : SeqsUpTo(Lines, MaxRows)]

\* Exception classes that are subclasses of Exception; KeyboardInterrupt is
\* a BaseException only.
IsException(e) == e # "KeyboardInterrupt"

----------------------------------------------------------------------------
(* Helpers *)

Range(s) == {s[i] : i \in 1..Len(s)}

Record(level, msg, item) == [level |-> level, msg |-> msg, row |-> item]

Logged(level, msg, item) == Append(log, Record(level, msg, item))

\* csv.DictReader: a dict keyed by the header's field names; a field the
\* row is too short for gets restval, which is None.
DictRow(fieldnames, values) ==
    [k \in Range(fieldnames) |->
        LET i == CHOOSE j \in 1..Len(fieldnames) : fieldnames[j] = k
        IN  IF i <= Len(values) THEN values[i] ELSE None]

Called(what) == [calls EXCEPT ![what] = @ + 1]

----------------------------------------------------------------------------

Init ==
    /\ \E how \in {"main", "import"} :
          /\ invoked = how
          /\ preferred_key_algorithm \in
                IF how = "main" THEN {None} \cup Algorithms ELSE {Undefined}
    /\ manifest \in Manifests
    /\ pc = "validate"
    /\ exc = None
    /\ ssh = "none"
    /\ sftp = "none"
    /\ file = "none"
    /\ key_algorithm = "none"
    /\ preflight = [key_valid |-> "unknown", host_reachable |-> "unknown"]
    /\ calls = [validate |-> 0, probe |-> 0, connect |-> 0, close |-> 0]
    /\ line_num = 0
    /\ row = <<>>
    /\ retry_count = 0
    /\ attempts = [i \in 1..Len(manifest.lines) |-> 0]
    /\ log = <<>>
    /\ exit_code = "running"

----------------------------------------------------------------------------
(* Control flow *)

\* An exception leaves sftp_transfer from outside the try statement of
\* line 96: nothing runs on the way out.
Propagate(e) ==
    /\ exc' = e
    /\ pc' = "leave"

\* The with statements without the try ... finally around them.
Unwind_NoFinally(e) ==
    /\ exc' = e
    /\ sftp' = IF sftp = "open" THEN "closed" ELSE sftp
    /\ file' = IF file = "open" THEN "closed" ELSE file
    /\ pc' = "leave"

\* An exception raised under the with statements of lines 97-98: each
\* context manager that was entered closes its resource, then the finally
\* clause runs.
Unwind(e) ==
    /\ exc' = e
    /\ sftp' = IF sftp = "open" THEN "closed" ELSE sftp
    /\ file' = IF file = "open" THEN "closed" ELSE file
    /\ pc' = "finally"

\* A return statement outside the try statement.
Return ==
    /\ exc' = exc
    /\ pc' = "leave"

----------------------------------------------------------------------------
(* Preflight: lines 69-75 *)

\* open() of the key file and paramiko.RSAKey: a key, or an exception.
KeyOutcomes == {"ok", "FileNotFoundError", "SSHException", "PermissionError"}

\* validate_private_key, lines 25-30: the exceptions it maps to False.
KeyCaught(e) == e \in {"FileNotFoundError", "SSHException"}

\* socket.create_connection: a connection, or an exception.
ProbeOutcomes == {"ok", "ConnectionRefusedError", "gaierror", "timeout", "OSError"}

\* is_host_reachable, lines 43-47: the exceptions it maps to False.
ProbeCaught(e) == e \in {"ConnectionRefusedError", "gaierror"}

\* A failed check that is logged but does not return.
PreflightFailed_NoReturn(msg) ==
    /\ log' = Logged("ERROR", msg, 0)
    /\ exc' = exc
    /\ pc' = IF pc = "validate" THEN "reachable" ELSE "client"

\* Lines 70-71 and 74-75: the failed check is logged and the run returns.
PreflightFailed(msg) ==
    /\ log' = Logged("ERROR", msg, 0)
    /\ Return

\* A run that goes from the key check straight to the client.
AfterKeyCheck_SkipProbe == "client"

\* Line 73 follows line 69: after a valid key the host is probed.
AfterKeyCheck == "reachable"

ValidatePrivateKey ==
    /\ pc = "validate"
    /\ calls' = Called("validate")
    /\ \E o \in KeyOutcomes :
          IF o = "ok" THEN
              /\ preflight' = [preflight EXCEPT !.key_valid = "True"]
              /\ pc' = AfterKeyCheck
              /\ UNCHANGED <<exc, log>>
          ELSE IF KeyCaught(o) THEN
              /\ preflight' = [preflight EXCEPT !.key_valid = "False"]
              /\ PreflightFailed("Invalid private key.")
          ELSE
              /\ preflight' = [preflight EXCEPT !.key_valid = "raised"]
              /\ Propagate(o)
              /\ UNCHANGED log
    /\ UNCHANGED <<invoked, preferred_key_algorithm, manifest, ssh, sftp, file,
                   key_algorithm, line_num, row, retry_count, attempts, exit_code>>

IsHostReachable ==
    /\ pc = "reachable"
    /\ calls' = Called("probe")
    /\ \E o \in ProbeOutcomes :
          IF o = "ok" THEN
              /\ preflight' = [preflight EXCEPT !.host_reachable = "True"]
              /\ pc' = "client"
              /\ UNCHANGED <<exc, log>>
          ELSE IF ProbeCaught(o) THEN
              /\ preflight' = [preflight EXCEPT !.host_reachable = "False"]
              /\ PreflightFailed("Host is not reachable.")
          ELSE
              /\ preflight' = [preflight EXCEPT !.host_reachable = "raised"]
              /\ Propagate(o)
              /\ UNCHANGED log
    /\ UNCHANGED <<invoked, preferred_key_algorithm, manifest, ssh, sftp, file,
                   key_algorithm, line_num, row, retry_count, attempts, exit_code>>

----------------------------------------------------------------------------
(* Session open: lines 77-94 *)

\* Lines 77-80: the client, its host key policy, and the key.
CreateClient ==
    /\ pc = "client"
    /\ ssh' = "created"
    /\ key_algorithm' = "default"
    /\ pc' = "algorithm"
    /\ UNCHANGED <<invoked, preferred_key_algorithm, manifest, exc, sftp, file, preflight, calls,
                   line_num, row, retry_count, attempts, log, exit_code>>

\* Lines 83-85.  Reading a global that was never assigned raises NameError.
ApplyKeyAlgorithm ==
    /\ pc = "algorithm"
    /\ IF preferred_key_algorithm = Undefined THEN
           /\ Propagate("NameError")
           /\ UNCHANGED <<key_algorithm, log>>
       ELSE IF preferred_key_algorithm # None THEN
           /\ log' = Logged("INFO", "preferred_key_algorithm : ", 0)
           /\ key_algorithm' = preferred_key_algorithm
           /\ pc' = "connect"
           /\ UNCHANGED exc
       ELSE
           /\ pc' = "connect"
           /\ UNCHANGED <<exc, key_algorithm, log>>
    /\ UNCHANGED <<invoked, preferred_key_algorithm, manifest, ssh, sftp, file, preflight, calls,
                   line_num, row, retry_count, attempts, exit_code>>

\* ssh.connect: a session, or an exception.
ConnectOutcomes ==
    {"ok", "AuthenticationException", "SSHException", "socket.error", "KeyboardInterrupt"}

\* Lines 89-94: the except clauses of the connect.
ConnectCaught(e) == e \in {"AuthenticationException", "SSHException"}

\* A failed connect that is logged but does not return.
SessionFailed_NoReturn(msg) ==
    /\ log' = Logged("ERROR", msg, 0)
    /\ exc' = exc
    /\ pc' = "open_sftp"
    /\ UNCHANGED ssh

\* Lines 90-91 and 93-94: the failure is logged and the run returns; the
\* client is left as it is.
SessionFailed(msg) ==
    /\ log' = Logged("ERROR", msg, 0)
    /\ Return
    /\ UNCHANGED ssh

Connect ==
    /\ pc = "connect"
    /\ calls' = Called("connect")
    /\ \E o \in ConnectOutcomes :
          IF o = "ok" THEN
              /\ ssh' = "connected"
              /\ pc' = "open_sftp"
              /\ UNCHANGED <<exc, log>>
          ELSE IF ConnectCaught(o) THEN
              SessionFailed(IF o = "AuthenticationException"
                            THEN "Authentication error."
                            ELSE "Error connecting via SSH")
          ELSE
              /\ Propagate(o)
              /\ UNCHANGED <<ssh, log>>
    /\ UNCHANGED <<invoked, preferred_key_algorithm, manifest, sftp, file,
                   key_algorithm, preflight, line_num, row, retry_count, attempts, exit_code>>

----------------------------------------------------------------------------
(* Manifest processing: lines 96-112 *)

\* ssh.open_sftp: a channel, or an exception.
OpenSftpOutcomes == {"ok", "SSHException", "KeyboardInterrupt"}

\* Line 97.
OpenSftp ==
    /\ pc = "open_sftp"
    /\ \E o \in OpenSftpOutcomes :
          IF o = "ok" THEN
              /\ sftp' = "open"
              /\ pc' = "open_manifest"
              /\ UNCHANGED <<exc, file>>
          ELSE
              Unwind(o)
    /\ UNCHANGED <<invoked, preferred_key_algorithm, manifest, ssh, key_algorithm,
                   preflight, calls, line_num, row, retry_count, attempts, log, exit_code>>

\* Lines 98-99: open() raises for a manifest that cannot be read; the
\* DictReader reads nothing until it is iterated.
OpenManifest ==
    /\ pc = "open_manifest"
    /\ IF manifest.readable THEN
           /\ file' = "open"
           /\ pc' = "next_row"
           /\ UNCHANGED <<exc, sftp>>
       ELSE
           Unwind("FileNotFoundError")
    /\ UNCHANGED <<invoked, preferred_key_algorithm, manifest, ssh, key_algorithm,
                   preflight, calls, line_num, row, retry_count, attempts, log, exit_code>>

\* A counter kept across rows instead of one started for each row.
FreshRetryCount_Carried == retry_count

\* Line 103: range(MAX_RETRIES) starts again at 0 for every row.
FreshRetryCount == 0

\* Line 101: row['Source'], row['Destination'] raise KeyError for a key the
\* dict does not have.
MissingKey(r) == ~ ({"Source", "Destination"} \subseteq DOMAIN r)

\* Lines 100-101: the next row of the reader, or the end of the loop; an
\* interrupt may arrive while the file is read.
NextRow ==
    /\ pc = "next_row"
    /\ \/ /\ line_num < Len(manifest.lines)
          /\ LET r == DictRow(manifest.fieldnames, manifest.lines[line_num + 1])
             IN  /\ line_num' = line_num + 1
                 /\ row' = r
                 /\ retry_count' = FreshRetryCount
                 /\ IF MissingKey(r) THEN Unwind("KeyError")
                    ELSE /\ pc' = "get"
                         /\ UNCHANGED <<exc, sftp, file>>
       \/ /\ line_num = Len(manifest.lines)
          /\ pc' = "completed"
          /\ UNCHANGED <<exc, sftp, file, line_num, row, retry_count>>
       \/ /\ Unwind("KeyboardInterrupt")
          /\ UNCHANGED <<line_num, row, retry_count>>
    /\ UNCHANGED <<invoked, preferred_key_algorithm, manifest, ssh, key_algorithm,
                   preflight, calls, attempts, log, exit_code>>

\* sftp.get(source, destination): the file is fetched, or an exception is
\* raised.  With a destination of None the open() of the local file raises
\* TypeError before anything is fetched.
GetOutcomes(r) ==
    IF r["Source"] = None \/ r["Destination"] = None THEN {"TypeError"}
    ELSE {"ok", "FileNotFoundError", "PermissionError", "IOError", "Exception",
          "KeyboardInterrupt"}

\* The except clauses without the catch-all of line 110.
GetHandler_NoCatchAll(e) ==
    IF e \in {"FileNotFoundError", "PermissionError", "IOError"} THEN "Error transferring file"
    ELSE "propagate"

\* Lines 108-111: the except clause that takes an exception of the get.
GetHandler(e) ==
    IF e \in {"FileNotFoundError", "PermissionError", "IOError"} THEN "Error transferring file"
    ELSE IF IsException(e) THEN "Unexpected error transferring file"
    ELSE "propagate"

\* A retry loop that only a success ends.
LastAttempt_Never(n) == FALSE

\* A retry loop that runs once more than range(MAX_RETRIES).
LastAttempt_OffByOne(n) == n + 1 > MAX_RETRIES

\* Line 103: whether pass n (from 0) is the last of range(MAX_RETRIES).
LastAttempt(n) == n + 1 >= MAX_RETRIES

\* A retry loop that gives up on the row at its first failure.
Continue_NoRetry == [pc |-> "next_row", retry_count |-> retry_count]

\* Lines 108-111: an except clause has run; the for statement takes the
\* next value of range(MAX_RETRIES), or ends.
Continue ==
    IF LastAttempt(retry_count)
    THEN [pc |-> "next_row", retry_count |-> retry_count]
    ELSE [pc |-> "get", retry_count |-> retry_count + 1]

\* The retry loop without the break of line 107.
Break_Missing == Continue

\* Line 107: break leaves the retry loop.
Break == [pc |-> "next_row", retry_count |-> retry_count]

\* Lines 103-111: one pass through the body of the retry loop.
Get ==
    /\ pc = "get"
    /\ attempts' = [attempts EXCEPT ![line_num] = @ + 1]
    /\ \E o \in GetOutcomes(row) :
          IF o = "ok" THEN
              /\ log' = Logged("INFO", "Successfully transferred", line_num)
              /\ pc' = Break.pc
              /\ retry_count' = Break.retry_count
              /\ UNCHANGED <<exc, sftp, file>>
          ELSE IF GetHandler(o) = "propagate" THEN
              /\ Unwind(o)
              /\ UNCHANGED <<log, retry_count>>
          ELSE
              /\ log' = Logged("ERROR", GetHandler(o), line_num)
              /\ pc' = Continue.pc
              /\ retry_count' = Continue.retry_count
              /\ UNCHANGED <<exc, sftp, file>>
    /\ UNCHANGED <<invoked, preferred_key_algorithm, manifest, ssh, key_algorithm,
                   preflight, calls, line_num, row, exit_code>>

\* The message of line 112.
FinalStatus == Record("INFO", "SFTP transfer completed successfully.", 0)

\* The loop has ended: both with statements exit, then line 112.
Completed ==
    /\ pc = "completed"
    /\ file' = "closed"
    /\ sftp' = "closed"
    /\ log' = Append(log, FinalStatus)
    /\ pc' = "finally"
    /\ UNCHANGED <<invoked, preferred_key_algorithm, manifest, exc, ssh, key_algorithm,
                   preflight, calls, line_num, row, retry_count, attempts, exit_code>>

\* A finally clause that also logs the message of line 112.
Finally_LogsStatus ==
    /\ pc = "finally"
    /\ ssh' = "closed"
    /\ calls' = Called("close")
    /\ log' = Append(log, FinalStatus)
    /\ pc' = "leave"
    /\ UNCHANGED <<invoked, preferred_key_algorithm, manifest, exc, sftp, file,
                   key_algorithm, preflight, line_num, row, retry_count, attempts,
                   exit_code>>

\* Lines 113-114: ssh.close(), then the return or the exception goes on.
Finally ==
    /\ pc = "finally"
    /\ ssh' = "closed"
    /\ calls' = Called("close")
    /\ pc' = "leave"
    /\ UNCHANGED <<invoked, preferred_key_algorithm, manifest, exc, sftp, file,
                   key_algorithm, preflight, line_num, row, retry_count, attempts, log,
                   exit_code>>

----------------------------------------------------------------------------
(* The caller: lines 148-153 *)

\* The script's try statement logs an interrupt or an exception and falls
\* off the end of the script, so the process ends with status 0.  A caller
\* that imported the module gets None, or the exception.
Caller ==
    /\ pc = "leave"
    /\ pc' = "done"
    /\ IF invoked = "main" THEN
           /\ exit_code' = "0"
           /\ log' = IF exc = None THEN log
                     ELSE IF exc = "KeyboardInterrupt"
                          THEN Logged("INFO", "Script interrupted by user.", 0)
                          ELSE Logged("ERROR", "Global SFTP error", 0)
       ELSE
           /\ exit_code' = "n/a"
           /\ UNCHANGED log
    /\ UNCHANGED <<invoked, preferred_key_algorithm, manifest, exc, ssh, sftp, file,
                   key_algorithm, preflight, calls, line_num, row, retry_count, attempts>>

----------------------------------------------------------------------------

Next ==
    \/ ValidatePrivateKey
    \/ IsHostReachable
    \/ CreateClient
    \/ ApplyKeyAlgorithm
    \/ Connect
    \/ OpenSftp
    \/ OpenManifest
    \/ NextRow
    \/ Get
    \/ Completed
    \/ Finally
    \/ Caller

Spec == Init /\ [][Next]_vars

\* Every call of the run returns or raises, so a run that can take a step
\* does take it.
FairSpec == Spec /\ WF_vars(Next)

----------------------------------------------------------------------------
(* Vocabulary of the properties *)

N == Len(manifest.lines)

Items == 1..N

\* A manifest that can be read, with both columns and only full rows.
WellFormed ==
    /\ manifest.readable
    /\ {"Source", "Destination"} \subseteq Range(manifest.fieldnames)
    /\ \A i \in Items : Len(manifest.lines[i]) = Len(manifest.fieldnames)

\* The log records about row i with message msg.
Count(msg, i) ==
    Cardinality({k \in 1..Len(log) : log[k].msg = msg /\ log[k].row = i})

Successes(i) == Count("Successfully transferred", i)

Failures(i) ==
    Count("Error transferring file", i) + Count("Unexpected error transferring file", i)

\* The run has left sftp_transfer.
Ended == pc \in {"leave", "done"}

\* The loop over the rows has run to its end.
PassEnded == pc = "completed" \/ (pc \in {"finally", "leave", "done"} /\ FinalStatus \in Range(log))

\* The retry loop of row i has ended, by break or by exhaustion.
Resolved(i) ==
    \/ i < line_num
    \/ i = line_num /\ (pc = "next_row" \/ PassEnded)

Interrupted == exc = "KeyboardInterrupt"

\* A check of the preflight did not pass: it returned False, or raised.
PreflightAborted ==
    \/ preflight.key_valid \in {"False", "raised"}
    \/ preflight.host_reachable \in {"False", "raised"}

\* ssh.connect returned: the client holds a session (open, or closed since).
SessionOpened == ssh \in {"connected", "closed"}

\* ssh.connect raised one of the two exceptions of lines 89-94.
ConnectFailed ==
    \E k \in 1..Len(log) :
        log[k].msg \in {"Authentication error.", "Error connecting via SSH"}

\* The message of line 112 has been logged.
StatusEmitted == FinalStatus \in Range(log)

NoFetch == \A i \in Items : attempts[i] = 0

----------------------------------------------------------------------------
(* C1 *)

\* C1: with a well-formed manifest no exception of a fetch ever leaves the
\* retry loop (only an interrupt can end the pass early), every row before
\* the current one has been fetched at least once, and a pass that ran to
\* its end has fetched every one of the N rows at least once.
C1_FailureNeverAbortsBatch ==
    (WellFormed /\ file # "none") =>
        /\ exc \in {None, "KeyboardInterrupt"}
        /\ \A i \in Items : i < line_num => attempts[i] >= 1
        /\ ~Interrupted /\ pc \in {"completed", "finally", "leave", "done"}
              => \A i \in Items : attempts[i] >= 1

\* A run of two or more rows whose first row failed on every attempt, by
\* the catch-all clause too, and whose second row was fetched.
C1_Witness ==
    /\ WellFormed /\ N >= 2 /\ pc = "done" /\ ~Interrupted
    /\ Successes(1) = 0 /\ attempts[1] = MAX_RETRIES
    /\ Count("Unexpected error transferring file", 1) >= 1
    /\ attempts[2] >= 1

----------------------------------------------------------------------------
(* C2 *)

\* C2: no row is ever fetched more than MAX_RETRIES times; a row whose
\* retry loop ended without a success was fetched exactly MAX_RETRIES
\* times; and after the MAX_RETRIES-th fetch of a row the run is no
\* longer fetching that row.
C2_RetryBounded ==
    \A i \in Items :
        /\ attempts[i] <= MAX_RETRIES
        /\ Resolved(i) /\ Successes(i) = 0
              => attempts[i] = MAX_RETRIES /\ Failures(i) = MAX_RETRIES
        /\ attempts[i] = MAX_RETRIES => ~(pc = "get" /\ line_num = i)

\* A full row failed on every attempt and the run went on to the next row.
C2_Witness ==
    /\ WellFormed /\ N >= 2
    /\ Successes(1) = 0 /\ attempts[1] = MAX_RETRIES
    /\ line_num = 2 /\ pc = "get"

----------------------------------------------------------------------------
(* C3 *)

\* C3: a row with a success record has exactly one, it is the last record
\* about the row, the row was fetched exactly once more than it failed,
\* with fewer than MAX_RETRIES failures, and is not fetched again.
C3_SuccessStopsRetry ==
    \A i \in Items :
        /\ Successes(i) <= 1
        /\ Successes(i) = 1 =>
              /\ Failures(i) < MAX_RETRIES
              /\ attempts[i] = Failures(i) + 1
              /\ ~(pc = "get" /\ line_num = i)
              /\ \A k \in 1..Len(log) :
                    log[k].row = i /\ log[k].msg = "Successfully transferred"
                       => \A m \in (k + 1)..Len(log) : log[m].row # i

\* A row failed twice, succeeded on the third attempt, and the run ended.
C3_Witness ==
    /\ N >= 1 /\ pc = "done"
    /\ Failures(1) = MAX_RETRIES - 1 /\ Successes(1) = 1 /\ attempts[1] = MAX_RETRIES

----------------------------------------------------------------------------
(* C4 *)

\* C4: when the pass over a well-formed manifest has ended, every row has
\* exactly one resolution on record: one success record, or else exactly
\* one failure record, made after at most MAX_RETRIES attempts.
C4_OneResolutionPerItem ==
    (WellFormed /\ PassEnded) =>
        \A i \in Items :
            /\ attempts[i] <= MAX_RETRIES
            /\ \/ Successes(i) = 1
               \/ Successes(i) = 0 /\ Failures(i) = 1

----------------------------------------------------------------------------
(* C5 *)

\* C5: ssh.close() is never called twice; while the session is open and
\* not yet closed the run has not left sftp_transfer; and a run that opened
\* a session and has ended, however it ended, called ssh.close() exactly
\* once.
C5_CloseExactlyOnce ==
    /\ calls.close <= 1
    /\ ssh = "connected" => calls.close = 0 /\ ~Ended
    /\ SessionOpened /\ Ended => calls.close = 1 /\ ssh = "closed"

\* An interrupt arrived during the fetch of the second row and the run
\* ended with the session closed once.
C5_Witness ==
    /\ pc = "done" /\ Interrupted
    /\ line_num = 2 /\ attempts[2] >= 1
    /\ calls.close = 1

----------------------------------------------------------------------------
(* C6 *)

\* C6: a run that created the client and called connect has called the
\* client's close by the time it has ended.
C6_CloseOnEveryExit ==
    (Ended /\ calls.connect >= 1) => calls.close >= 1

----------------------------------------------------------------------------
(* C7 *)

\* C7: once a preflight check has failed the run has returned or raised,
\* connect was never called, no client, channel or manifest file exists,
\* nothing was fetched, the final status is not logged, and neither check
\* was made twice.
C7_PreflightShortCircuits ==
    /\ calls.validate <= 1
    /\ calls.probe <= 1
    /\ PreflightAborted =>
          /\ Ended
          /\ calls.connect = 0 /\ ssh = "none"
          /\ sftp = "none" /\ file = "none" /\ line_num = 0
          /\ NoFetch
          /\ ~StatusEmitted

\* The key was valid, the probe was refused, and the run ended.
C7_Witness ==
    /\ pc = "done"
    /\ preflight.key_valid = "True" /\ preflight.host_reachable = "False"
    /\ N >= 1

----------------------------------------------------------------------------
(* C8 *)

\* C8: connect is called at most once, and once it has failed with an
\* authentication or SSH exception the run has returned, the manifest was
\* never opened, nothing was fetched and the final status is not logged.
C8_SessionFailureIsFatal ==
    /\ calls.connect <= 1
    /\ ConnectFailed =>
          /\ Ended
          /\ ~SessionOpened
          /\ sftp = "none" /\ file = "none" /\ line_num = 0
          /\ NoFetch
          /\ ~StatusEmitted

\* The connect failed to authenticate and the run ended.
C8_Witness ==
    /\ pc = "done" /\ calls.connect = 1 /\ N >= 1
    /\ \E k \in 1..Len(log) : log[k].msg = "Authentication error."

----------------------------------------------------------------------------
(* C9 *)

\* C9: after the pass over a well-formed manifest exactly one final status
\* is logged, and it is the full-success status only if every row has a
\* success record.
C9_StatusReflectsOutcome ==
    (WellFormed /\ PassEnded /\ pc # "completed") =>
        /\ Cardinality({k \in 1..Len(log) : log[k].row = 0 /\ log[k].level = "INFO"
                                              /\ log[k] = FinalStatus}) = 1
        /\ StatusEmitted => \A i \in Items : Successes(i) = 1

----------------------------------------------------------------------------
(* C10 *)

\* What the caller of the run gets: status 0 of the process, or, for an
\* importing caller, None returned; anything else signals failure.
SuccessSignal ==
    IF invoked = "main" THEN exit_code = "0" ELSE exc = None

\* A row's retry loop ended without a success, or the run was cut short in
\* the preflight or at the connect.
RunFailed ==
    \/ \E i \in Items : Resolved(i) /\ Successes(i) = 0
    \/ PreflightAborted
    \/ ConnectFailed

\* C10: a run that has ended signals failure whenever it failed, and
\* signals success only if the pass ended and every row succeeded.
C10_ExitSignalDistinguishesFailure ==
    pc = "done" =>
        /\ RunFailed => ~SuccessSignal
        /\ SuccessSignal => PassEnded /\ \A i \in Items : Successes(i) = 1

----------------------------------------------------------------------------
(* C11 *)

\* C11: whatever the connection probe does, is_host_reachable returns a
\* boolean to sftp_transfer: it never raises.
C11_ProbeNeverRaises ==
    preflight.host_reachable \in {"unknown", "True", "False"}

----------------------------------------------------------------------------
(* C12 *)

\* The part of the order that does not concern the two preflight checks:
\* connect comes after both checks have passed, the channel and the
\* manifest are opened on an open session, a row is fetched only with the
\* manifest opened, the final status is logged when no fetch is under way,
\* and after the close nothing but the return to the caller happens.
OrderAfterPreflight ==
    /\ calls.connect >= 1 =>
          /\ calls.validate = 1 /\ preflight.key_valid = "True"
          /\ calls.probe = 1 /\ preflight.host_reachable = "True"
    /\ (sftp # "none" \/ file # "none" \/ line_num > 0) => SessionOpened
    /\ (\E i \in Items : attempts[i] >= 1) => file # "none"
    /\ StatusEmitted => pc \in {"finally", "leave", "done"}
    /\ calls.close >= 1 => Ended

\* After the final status no row is fetched, and after the close no
\* collaborator is called and no row is read or fetched.
StepsAfterStatus ==
    /\ StatusEmitted => attempts' = attempts /\ line_num' = line_num
    /\ calls.close >= 1 =>
          /\ calls' = calls /\ attempts' = attempts /\ line_num' = line_num
          /\ ssh' = ssh /\ sftp' = sftp /\ file' = file

\* C12 as stated: the host is probed before the key is validated, and the
\* rest of the order follows.
C12_ProbeBeforeKeyCheck ==
    /\ calls.validate >= 1 => calls.probe >= 1
    /\ OrderAfterPreflight

\* C12 as amended: the key is validated before the host is probed (the
\* probe is made only after the key was found valid), and the rest of the
\* order follows.
C12_StepsInOrder ==
    /\ [](/\ calls.probe >= 1 => calls.validate = 1 /\ preflight.key_valid = "True"
          /\ OrderAfterPreflight)
    /\ [][StepsAfterStatus]_vars

\* A run that went through every step: a row was fetched, the status was
\* logged and the session closed.
C12_Witness ==
    /\ pc = "done" /\ N >= 1 /\ attempts[1] >= 1
    /\ StatusEmitted /\ calls.close = 1
    /\ calls.validate = 1 /\ calls.probe = 1 /\ calls.connect = 1

----------------------------------------------------------------------------
(* C13 *)

\* The manifest cannot be read, or its header lacks a required column.
ManifestError ==
    \/ ~manifest.readable
    \/ ~({"Source", "Destination"} \subseteq Range(manifest.fieldnames))

\* C13: with a manifest that cannot be read or lacks a required column
\* nothing is fetched and the success status is never logged, and a run
\* that opened a session has closed it when it has ended.
C13_ManifestErrorAborts ==
    ManifestError =>
        /\ NoFetch
        /\ ~StatusEmitted
        /\ SessionOpened /\ Ended => calls.close = 1

----------------------------------------------------------------------------
(* C14 *)

\* Row i has fewer fields than the header.
ShortRow(i) == Len(manifest.lines[i]) < Len(manifest.fieldnames)

\* C14: under a header with both columns, a row with fewer fields than
\* the header is never fetched, and neither is any row after it.
C14_MalformedRowAborts ==
    ~ManifestError =>
        \A i \in Items : ShortRow(i) => \A j \in i..N : attempts[j] = 0

----------------------------------------------------------------------------
(* C15 *)

\* Row i is resolved: it succeeded, or it failed MAX_RETRIES times.
Settled(i) ==
    \/ Successes(i) = 1
    \/ Successes(i) = 0 /\ attempts[i] = MAX_RETRIES /\ Failures(i) = MAX_RETRIES

\* Only rows already read have been fetched, every row before the current
\* one is resolved, and so at most one row, the current one, is in
\* progress.
OneItemInProgress ==
    /\ \A i \in Items : attempts[i] >= 1 => i <= line_num
    /\ \A i \in Items : i < line_num => Settled(i)
    /\ Cardinality({i \in Items : i <= line_num /\ ~Settled(i)}) <= 1
    /\ pc = "get" => line_num \in Items

\* A step fetches the current row only, and no row after it has been
\* fetched yet.
FetchesCurrentRowOnly ==
    \A i \in Items :
        attempts'[i] # attempts[i] =>
            /\ i = line_num
            /\ attempts'[i] = attempts[i] + 1
            /\ \A j \in Items : j > i => attempts[j] = 0 /\ attempts'[j] = 0
            /\ \A j \in Items : j < i => Settled(j)

\* C15: at most one row is in progress, a row is fetched only when every
\* row before it is resolved, and a row is never fetched once a later row
\* has been fetched.
C15_StrictlySequential ==
    []OneItemInProgress /\ [][FetchesCurrentRowOnly]_vars

\* The first row failed on every attempt and the second is being fetched
\* again after a first failure.
C15_Witness ==
    /\ N >= 2 /\ line_num = 2 /\ pc = "get"
    /\ attempts[1] = MAX_RETRIES /\ Successes(1) = 0
    /\ attempts[2] = 1 /\ Failures(2) = 1

----------------------------------------------------------------------------
(* C16 *)

\* C16: while a row is fetched the loop variable counts the fetches of
\* that row alone; the number of fetches of a row is the number of its own
\* failures and successes (plus the fetch an interrupt cut off); and a row
\* whose retry loop has ended was fetched once more than it failed if it
\* succeeded, MAX_RETRIES times if not, whatever happened to earlier rows.
C16_RetryStatePerItem ==
    /\ pc = "get" => retry_count = attempts[line_num] /\ retry_count < MAX_RETRIES
    /\ \A i \in Items :
          /\ attempts[i] = Failures(i) + Successes(i)
                + (IF Interrupted /\ i = line_num /\ attempts[i] > 0
                      /\ ~Settled(i) THEN 1 ELSE 0)
          /\ Resolved(i) =>
                \/ Successes(i) = 1 /\ attempts[i] = Failures(i) + 1
                \/ Successes(i) = 0 /\ attempts[i] = MAX_RETRIES

\* Two equal rows: the first failed on every attempt, the second still had
\* its three attempts and succeeded on the last.
C16_Witness ==
    /\ WellFormed /\ N = 2 /\ manifest.lines[1] = manifest.lines[2]
    /\ pc = "done"
    /\ attempts[1] = MAX_RETRIES /\ Successes(1) = 0
    /\ attempts[2] = MAX_RETRIES /\ Successes(2) = 1

----------------------------------------------------------------------------
(* C17 *)

\* C17: whichever way sftp_transfer is invoked, a run that has loaded the
\* key goes on to connect, and at the connect the key carries the
\* preferred algorithm if one is configured and is unchanged if none is.
C17_KeyAlgorithmApplied ==
    /\ calls.connect >= 1 =>
          key_algorithm = IF preferred_key_algorithm \in Algorithms
                          THEN preferred_key_algorithm ELSE "default"
    /\ Ended /\ key_algorithm # "none" => calls.connect >= 1

----------------------------------------------------------------------------
(* C18 *)

\* The session is live: connected, channel open, nothing closed.
SessionLive ==
    /\ ssh = "connected" /\ calls.connect = 1 /\ calls.close = 0
    /\ sftp = "open"

\* C18: the run is at the fetch only with a live session, every step that
\* fetches starts from a live session, and once the channel or the
\* session is closed nothing is fetched.
C18_FetchOnlyWhileSessionLive ==
    /\ [](pc = "get" => SessionLive)
    /\ [][attempts' # attempts => SessionLive]_vars
    /\ [][(ssh = "closed" \/ sftp = "closed") => attempts' = attempts]_vars

\* Rows were fetched, and the run ended with channel and session closed.
C18_Witness ==
    /\ pc = "done" /\ N >= 2 /\ attempts[1] >= 1 /\ attempts[2] >= 1
    /\ ssh = "closed" /\ sftp = "closed"

----------------------------------------------------------------------------
(* C19 *)

RECURSIVE SumTo(_, _)
SumTo(f, n) == IF n = 0 THEN 0 ELSE f[n] + SumTo(f, n - 1)

\* The number of sftp.get calls of the run.
TotalAttempts == SumTo(attempts, N)

\* C19: every run reaches its end, and never makes more than
\* MAX_RETRIES x N fetch attempts.
C19_Terminates ==
    /\ <>(pc = "done")
    /\ [](TotalAttempts <= MAX_RETRIES * N)

\* A run that used every attempt of every row, and ended.
C19_Witness ==
    /\ pc = "done" /\ N >= 2
    /\ TotalAttempts = MAX_RETRIES * N

----------------------------------------------------------------------------
(* C20 *)

\* C20: the final status is logged at most once, only by a run whose loop
\* read the manifest to its end with every row resolved and no exception
\* raised, and so never by a run that failed a preflight check or the
\* connect, could not read the manifest, met a missing column, or was
\* interrupted.
C20_StatusOnlyAfterFullPass ==
    /\ Cardinality({k \in 1..Len(log) : log[k] = FinalStatus}) <= 1
    /\ StatusEmitted =>
          /\ manifest.readable /\ file = "closed"
          /\ line_num = N
          /\ \A i \in Items : Settled(i)
          /\ exc = None
          /\ ~PreflightAborted /\ ~ConnectFailed
    /\ exc # None => ~StatusEmitted

\* A run over two rows, one of which failed for good, logged the status.
C20_Witness ==
    /\ pc = "done" /\ N >= 2 /\ StatusEmitted
    /\ Successes(1) = 1 /\ Successes(2) = 0

====
